---- MODULE Spec2Model ----
(***************************************************************************)
(* Contest leaderboard engine of the Rails model Contest                   *)
(* (src/ruby/ror/ror-example-with-active-admin.rb): eligibility            *)
(* (allowed_profiles, contestant_list), activity aggregation (raw_numbers),*)
(* scoring and ordering (leaderboard_scope), ranking (calculate_ranks) and *)
(* the cached leaderboard (leaderboard, invalidate_leaderboard, the Resque *)
(* job ContestGenerateLeaderboard).                                        *)
(***************************************************************************)
EXTENDS Integers, Sequences, FiniteSets, TLC

VARIABLES
    lb,             \* rows handed to the ordering and ranking step (RankSpec)
    ranked,         \* result of calculate_ranks on the ordered rows (RankSpec)
    rankPc,         \* "input" before the ranking ran, "done" after
    contest,        \* the contests table: id -> attributes of the Contest record
    contest_votes,  \* the contest_votes table
    verified,       \* ids of the contest_emails rows with verified = true
    shipments,      \* the shipments table (joined to its label_request's collection)
    board,          \* what the last leaderboard_calc / allowed_profiles call returned
    enginePc,       \* "input" before that call, "done" after
    queue,          \* the Resque queue of ContestGenerateLeaderboard jobs (contest ids)
    worker,         \* the Resque worker: idle, or performing a job
    cache,          \* Rails.cache under leaderboard_cache_key, per contest
    reader          \* a request running Contest#leaderboard

rankVars == <<lb, ranked, rankPc>>

dataVars == <<contest, contest_votes, verified, shipments>>

engineVars == <<board, enginePc>>

cacheVars == <<queue, worker, cache, reader>>

vars == <<lb, ranked, rankPc, contest, contest_votes, verified, shipments, board, enginePc,
          queue, worker, cache, reader>>

(***************************************************************************)
(* Generic helpers                                                         *)
(***************************************************************************)
BoundedSeq(S, n) == UNION {[1..k -> S] : k \in 0..n}

\* SQL NULL (a LEFT JOIN without a match, a missing column value); text
\* columns hold character codes, which are positive
Null == -1

(***************************************************************************)
(* ORDER BY credits desc, organization_name, city, region_code, zipcode    *)
(***************************************************************************)
\* Ascending comparison of one text column; NULLs sort last (PostgreSQL ASC).
ColumnBefore(a, b) ==
    IF a = Null THEN FALSE
    ELSE IF b = Null THEN TRUE
    ELSE a < b

ColumnSame(a, b) == a = b

\* TRUE when row a must come strictly before row b in the ORDER BY.
RowBefore(a, b) ==
    IF a.credits # b.credits THEN a.credits > b.credits
    ELSE IF ~ColumnSame(a.organization_name, b.organization_name)
        THEN ColumnBefore(a.organization_name, b.organization_name)
    ELSE IF ~ColumnSame(a.city, b.city) THEN ColumnBefore(a.city, b.city)
    ELSE IF ~ColumnSame(a.region_code, b.region_code)
        THEN ColumnBefore(a.region_code, b.region_code)
    ELSE IF ~ColumnSame(a.zipcode, b.zipcode) THEN ColumnBefore(a.zipcode, b.zipcode)
    ELSE FALSE

\* Rows that tie on every ORDER BY key keep the order in which the scan
\* delivered them: the database promises no order among them, so the scan
\* order is an input.
RECURSIVE InsertRow(_, _)
InsertRow(row, sorted) ==
    IF sorted = <<>> THEN <<row>>
    ELSE IF RowBefore(row, Head(sorted)) THEN <<row>> \o sorted
    ELSE <<Head(sorted)>> \o InsertRow(row, Tail(sorted))

RECURSIVE OrderRows(_)
OrderRows(scan) ==
    IF scan = <<>> THEN <<>>
    ELSE InsertRow(scan[Len(scan)], OrderRows(SubSeq(scan, 1, Len(scan) - 1)))

(***************************************************************************)
(* calculate_ranks                                                         *)
(***************************************************************************)
WithRank(profile, rank) ==
    [f \in DOMAIN profile \cup {"rank"} |->
        IF f = "rank" THEN rank ELSE profile[f]]

\* the each_with_index loop: index is 0-based, current_credits and
\* current_rank are the two running locals
RECURSIVE RanksFrom(_, _, _, _)
RanksFrom(rows, index, current_credits, current_rank) ==
    IF index >= Len(rows) THEN <<>>
    ELSE LET profile == rows[index + 1]
             changed == profile.credits # current_credits
             rank    == IF changed THEN index + 1 ELSE current_rank
             credits == IF changed THEN profile.credits ELSE current_credits
         IN  <<WithRank(profile, rank)>> \o RanksFrom(rows, index + 1, credits, rank)

RECURSIVE RanksFromPrevPlusOne(_, _, _, _)
RanksFromPrevPlusOne(rows, index, current_credits, current_rank) ==
    IF index >= Len(rows) THEN <<>>
    ELSE LET profile == rows[index + 1]
             changed == profile.credits # current_credits
             rank    == IF changed
                        THEN (IF index = 0 THEN 1 ELSE current_rank + 1)
                        ELSE current_rank
             credits == IF changed THEN profile.credits ELSE current_credits
         IN  <<WithRank(profile, rank)>>
                 \o RanksFromPrevPlusOne(rows, index + 1, credits, rank)

calculate_ranks_prev_plus_one(rows) == RanksFromPrevPlusOne(rows, 0, -1, -1)

calculate_ranks(rows) == RanksFrom(rows, 0, -1, -1)

(***************************************************************************)
(* The tables the Contest model queries.  Text columns hold one character  *)
(* code; times are whole days.                                             *)
(***************************************************************************)
\* Country.current
CurrentCountry == 1

Users ==
    { [id |-> 1, first_name |-> 65, last_name |-> 66, current_profile |-> 1],
      [id |-> 2, first_name |-> 66, last_name |-> 65, current_profile |-> 2],
      [id |-> 3, first_name |-> 67, last_name |-> 67, current_profile |-> 3],
      [id |-> 4, first_name |-> 68, last_name |-> 65, current_profile |-> 4],
      [id |-> 5, first_name |-> 69, last_name |-> 66, current_profile |-> 5],
      [id |-> 6, first_name |-> 70, last_name |-> 65, current_profile |-> 6],
      [id |-> 7, first_name |-> 71, last_name |-> 65, current_profile |-> 7] }

UserIds == {u.id : u \in Users}

Regions == { [id |-> 1, region_code |-> 78], [id |-> 2, region_code |-> 83] }

RegionIds == {r.id : r \in Regions}

\* select_options of the category 'organization_types'
OrganizationTypeIds == {1, 2}

BrigadeIds == {1, 2, 3}

\* profile 3 has no region; profile 4 belongs to another country; profile 5
\* is a second participant of the organization of profile 2 (same name, city,
\* region and postal code); profiles 6 and 7 share their organization's
\* name, city and postal code
Profiles ==
    { [id |-> 1, user_id |-> 1, country_id |-> 1, organization_type_id |-> 1,
       region_id |-> 1, organization_name |-> 66, city |-> 65, zipcode |-> 49],
      [id |-> 2, user_id |-> 2, country_id |-> 1, organization_type_id |-> 2,
       region_id |-> 2, organization_name |-> 65, city |-> 66, zipcode |-> 50],
      [id |-> 3, user_id |-> 3, country_id |-> 1, organization_type_id |-> 1,
       region_id |-> Null, organization_name |-> 65, city |-> 66, zipcode |-> 50],
      [id |-> 4, user_id |-> 4, country_id |-> 2, organization_type_id |-> 1,
       region_id |-> 1, organization_name |-> 67, city |-> 65, zipcode |-> 49],
      [id |-> 5, user_id |-> 5, country_id |-> 1, organization_type_id |-> 2,
       region_id |-> 2, organization_name |-> 65, city |-> 66, zipcode |-> 50],
      [id |-> 6, user_id |-> 6, country_id |-> 1, organization_type_id |-> 1,
       region_id |-> 1, organization_name |-> 68, city |-> 65, zipcode |-> 49],
      [id |-> 7, user_id |-> 7, country_id |-> 1, organization_type_id |-> 1,
       region_id |-> 2, organization_name |-> 68, city |-> 65, zipcode |-> 49] }

ProfileIds == {p.id : p \in Profiles}

\* profile 1 has two collections under brigade 1; profiles 3 and 5 have an
\* active collection under brigade 2 only, profiles 6 and 7 under brigade 3
Collections ==
    { [id |-> 1, profile_id |-> 1, brigade_id |-> 1, active |-> TRUE],
      [id |-> 2, profile_id |-> 1, brigade_id |-> 1, active |-> TRUE],
      [id |-> 3, profile_id |-> 2, brigade_id |-> 1, active |-> TRUE],
      [id |-> 4, profile_id |-> 2, brigade_id |-> 2, active |-> TRUE],
      [id |-> 5, profile_id |-> 3, brigade_id |-> 2, active |-> TRUE],
      [id |-> 6, profile_id |-> 3, brigade_id |-> 1, active |-> FALSE],
      [id |-> 7, profile_id |-> 4, brigade_id |-> 1, active |-> TRUE],
      [id |-> 8, profile_id |-> 5, brigade_id |-> 2, active |-> TRUE],
      [id |-> 9, profile_id |-> 6, brigade_id |-> 3, active |-> TRUE],
      [id |-> 10, profile_id |-> 7, brigade_id |-> 3, active |-> TRUE] }

CollectionIds == {c.id : c \in Collections}

UserOf(p) == CHOOSE u \in Users : u.id = p.user_id

\* LEFT JOIN regions ON regions.id = profiles.region_id
RegionCodeOf(p) ==
    IF \E r \in Regions : r.id = p.region_id
    THEN (CHOOSE r \in Regions : r.id = p.region_id).region_code
    ELSE Null

(***************************************************************************)
(* Contest: scoring window and eligibility                                 *)
(***************************************************************************)
\* 1.day
OneDay == 1

interval_in_time_zone_without_offset(c, offset) == (c.first_day)..(c.last_day)

\* first_day.in_time_zone .. last_day.in_time_zone + offset, both ends included
interval_in_time_zone(c, offset) == (c.first_day)..(c.last_day + offset)

\* users_list_ids.delete(' ').split(',')
list_ids(c) == c.users_list_ids

filter_by_list_ids_always_in(c, p) ==
    IF list_ids(c) = {} THEN TRUE
    ELSE p.id \in {u.current_profile : u \in {x \in Users : x.id \in list_ids(c)}}

filter_by_list_ids_blank_matches_none(c, p) ==
    LET profile_ids == {u.current_profile : u \in {x \in Users : x.id \in list_ids(c)}}
    IN  IF c.users_list_white
        THEN p.id \in profile_ids
        ELSE p.id \notin profile_ids

\* the condition handed to where(): nil (no condition) when the list is blank
filter_by_list_ids(c, p) ==
    IF list_ids(c) = {} THEN TRUE
    ELSE LET profile_ids == {u.current_profile : u \in {x \in Users : x.id \in list_ids(c)}}
         IN  IF c.users_list_white
             THEN p.id \in profile_ids
             ELSE p.id \notin profile_ids

allowed_profiles_never_filters(c) ==
    {p \in Profiles :
        /\ p.country_id = CurrentCountry
        /\ filter_by_list_ids(c, p)}

allowed_profiles_filters_always(c) ==
    {p \in Profiles :
        /\ p.country_id = CurrentCountry
        /\ filter_by_list_ids(c, p)
        /\ (c.select_options # {} => p.organization_type_id \in c.select_options)
        /\ (c.regions # {} => p.region_id \in c.regions)}

allowed_profiles(c) ==
    {p \in Profiles :
        /\ p.country_id = CurrentCountry
        /\ filter_by_list_ids(c, p)
        /\ ~c.users_list_white =>
              /\ (c.select_options # {} => p.organization_type_id \in c.select_options)
              /\ (c.regions # {} => p.region_id \in c.regions)}

allowed_collections_inactive_too(c) ==
    {col \in Collections : col.brigade_id \in c.brigade_ids}

allowed_collections(c) ==
    {col \in Collections : col.active /\ col.brigade_id \in c.brigade_ids}

\* the join rows: one per (allowed profile, allowed collection of it)
contestant_list(c) ==
    {<<p, col>> \in allowed_profiles(c) \X allowed_collections(c) :
        col.profile_id = p.id}

active_contest_votes_unverified_too(c) ==
    {v \in contest_votes :
        /\ v.contest_id = c.id
        /\ v.created_at \in interval_in_time_zone(c, OneDay)}

active_contest_votes(c) ==
    {v \in contest_votes :
        /\ v.contest_id = c.id
        /\ v.contest_email \in verified
        /\ v.created_at \in interval_in_time_zone(c, OneDay)}

allowed_shipments(c) ==
    {s \in shipments :
        /\ s.created_at \in interval_in_time_zone(c, OneDay)
        /\ \E col \in allowed_collections(c) : col.id = s.collection_id}

CollectionOf(s) == CHOOSE col \in Collections : col.id = s.collection_id

RECURSIVE SumUnits(_)
SumUnits(S) ==
    IF S = {} THEN 0
    ELSE LET s == CHOOSE x \in S : TRUE
         IN  (IF s.units_collected = Null THEN 0 ELSE s.units_collected)
                 + SumUnits(S \ {s})

\* sum() over no row, or over NULLs only, is NULL; COALESCE turns it into 0
CoalescedUnits(S) ==
    IF \A s \in S : s.units_collected = Null THEN 0 ELSE SumUnits(S)

\* the grouped rows, one per profile of the contestant list
raw_numbers(c) ==
    { [id                |-> p.id,
       organization_name |-> p.organization_name,
       first_name        |-> UserOf(p).first_name,
       last_name         |-> UserOf(p).last_name,
       city              |-> p.city,
       region_code       |-> RegionCodeOf(p),
       zipcode           |-> p.zipcode,
       vote_count        |-> Cardinality({v \in active_contest_votes(c) :
                                            v.profile_id = p.id}),
       shipment_count    |-> Cardinality({s \in allowed_shipments(c) :
                                            CollectionOf(s).profile_id = p.id}),
       units_count       |-> CoalescedUnits({s \in allowed_shipments(c) :
                                            CollectionOf(s).profile_id = p.id})]
      : p \in {pc[1] : pc \in contestant_list(c)} }

credits_sum_without_units(c, row) ==
    c.credits_by_shipment * row.shipment_count + c.credits_by_vote * row.vote_count

\* the select expression "... as credits"
credits_sum(c, row) ==
    c.credits_by_shipment * row.shipment_count
        + c.credits_by_vote * row.vote_count
        + c.credits_by_unit * row.units_count

WithCredits(c, row) ==
    [f \in DOMAIN row \cup {"credits"} |->
        IF f = "credits" THEN credits_sum(c, row) ELSE row[f]]

\* every order in which the scan can deliver the rows of S
Scans(S) ==
    {s \in [1..Cardinality(S) -> S] : \A i, j \in DOMAIN s : s[i] = s[j] => i = j}

leaderboard_scope(c, scan) ==
    OrderRows([i \in DOMAIN scan |-> WithCredits(c, scan[i])])

leaderboard_calc_without_last(c, scan) ==
    LET whole == calculate_ranks(leaderboard_scope(c, scan))
    IN  IF whole = <<>> THEN <<>> ELSE SubSeq(whole, 1, Len(whole) - 1)

leaderboard_calc(c, scan) == calculate_ranks(leaderboard_scope(c, scan))

(***************************************************************************)
(* RankSpec: ordering and ranking of an arbitrary list of scored rows      *)
(***************************************************************************)
MaxRows == 6

CreditValues == {5, 8, 10}

ScoredRow(i, credits) ==
    [id |-> i, organization_name |-> 65, city |-> 65, region_code |-> Null,
     zipcode |-> 65, credits |-> credits]

RankInit ==
    /\ \E cr \in BoundedSeq(CreditValues, MaxRows) :
          lb = [i \in 1..Len(cr) |-> ScoredRow(i, cr[i])]
    /\ ranked = <<>>
    /\ rankPc = "input"
    /\ contest = <<>>
    /\ contest_votes = {}
    /\ verified = {}
    /\ shipments = {}
    /\ board = <<>>
    /\ enginePc = "off"
    /\ queue = <<>>
    /\ worker = <<>>
    /\ cache = <<>>
    /\ reader = <<>>

\* leaderboard_calc on the rows: ORDER BY, then calculate_ranks
RankRows ==
    /\ rankPc = "input"
    /\ ranked' = calculate_ranks(OrderRows(lb))
    /\ rankPc' = "done"
    /\ UNCHANGED <<lb, dataVars, engineVars, cacheVars>>

RankNext == RankRows

RankSpec == RankInit /\ [][RankNext]_vars

(***************************************************************************)
(* C1                                                                      *)
(***************************************************************************)
CreditsOf(rows) == [i \in 1..Len(rows) |-> rows[i].credits]

RanksOf(rows) == [i \in 1..Len(rows) |-> rows[i].rank]

FirstWithCredits(rows, c) ==
    CHOOSE i \in 1..Len(rows) :
        /\ rows[i].credits = c
        /\ \A j \in 1..(i - 1) : rows[j].credits # c

\* C1: the ranked leaderboard holds every input row once, is ordered by
\* credits descending, and each entry's rank is the 1-based position of the
\* first entry with the same credits; so equal credits share a rank, lower
\* credits have a strictly greater rank, credits [10,10,8,8,8,5] get ranks
\* [1,1,3,3,3,6], and the empty input gives the empty output.
C1_RankedByCredits ==
    rankPc = "done" =>
        /\ Len(ranked) = Len(lb)
        /\ {ranked[i].id : i \in 1..Len(ranked)} = {lb[i].id : i \in 1..Len(lb)}
        /\ \A i \in 1..Len(ranked) : \E j \in 1..Len(lb) :
              lb[j].id = ranked[i].id /\ lb[j].credits = ranked[i].credits
        /\ \A i, j \in 1..Len(ranked) :
              /\ i < j => ranked[i].credits >= ranked[j].credits
              /\ ranked[i].credits = ranked[j].credits => ranked[i].rank = ranked[j].rank
              /\ ranked[i].credits > ranked[j].credits => ranked[i].rank < ranked[j].rank
        /\ \A i \in 1..Len(ranked) :
              ranked[i].rank = FirstWithCredits(ranked, ranked[i].credits)
        /\ CreditsOf(ranked) = <<10, 10, 8, 8, 8, 5>> => RanksOf(ranked) = <<1, 1, 3, 3, 3, 6>>
        /\ lb = <<>> => ranked = <<>>

C1_Witness ==
    /\ rankPc = "done"
    /\ CreditsOf(lb) = <<8, 10, 5, 8, 10, 8>>
    /\ RanksOf(ranked) = <<1, 1, 3, 3, 3, 6>>

(***************************************************************************)
(* ScoreSpec: leaderboard_calc over drawn weights and activity             *)
(***************************************************************************)
MaxVotes == 2

MaxShipments == 1

\* a contest as the factory builds it: blacklist mode with an empty list, no
\* organization type or region restriction
DefaultContest(id) ==
    [id |-> id, first_day |-> 2, last_day |-> 4,
     credits_by_vote |-> 1, credits_by_shipment |-> 1, credits_by_unit |-> 1,
     users_list_white |-> FALSE, users_list_ids |-> {},
     select_options |-> {}, regions |-> {}, brigade_ids |-> {1},
     leaderboard_enabled |-> TRUE, leaderboard_display_address |-> TRUE]

\* the last instant of the scoring window and the first one after it
SampleTimes(c) == {c.last_day + OneDay, c.last_day + OneDay + 1}

VoteShapes(c) ==
    [contest_id : {c.id}, profile_id : {1, 2}, created_at : SampleTimes(c)]

ShipmentShapes(c) ==
    [collection_id : {1, 3, 4}, created_at : SampleTimes(c), units_collected : {Null, 2}]

WithId(shape, i) ==
    [f \in DOMAIN shape \cup {"id"} |-> IF f = "id" THEN i ELSE shape[f]]

\* a vote row carries the id of its contest_email; here every vote has its own
WithEmail(shape, i) ==
    [f \in DOMAIN shape \cup {"id", "contest_email"} |->
        IF f \in {"id", "contest_email"} THEN i ELSE shape[f]]

ScoreInit ==
    /\ \E cv \in {0, 1, 2}, cs \in {0, 5}, cu \in {0, 3} :
          contest = [i \in {1} |->
                        [DefaultContest(i) EXCEPT !.credits_by_vote = cv,
                                                  !.credits_by_shipment = cs,
                                                  !.credits_by_unit = cu]]
    /\ \E n \in 0..MaxVotes :
          \E f \in [1..n -> VoteShapes(DefaultContest(1))] :
              contest_votes = {WithEmail(f[i], i) : i \in 1..n}
    /\ verified \in SUBSET (1..MaxVotes)
    /\ \E n \in 0..MaxShipments :
          \E f \in [1..n -> ShipmentShapes(DefaultContest(1))] :
              shipments = {WithId(f[i], i) : i \in 1..n}
    /\ board = <<>>
    /\ enginePc = "input"
    /\ lb = <<>>
    /\ ranked = <<>>
    /\ rankPc = "off"
    /\ queue = <<>>
    /\ worker = <<>>
    /\ cache = <<>>
    /\ reader = <<>>

ComputeLeaderboard ==
    /\ enginePc = "input"
    /\ \E scan \in Scans(raw_numbers(contest[1])) :
          board' = leaderboard_calc(contest[1], scan)
    /\ enginePc' = "done"
    /\ UNCHANGED <<dataVars, rankVars, cacheVars>>

ScoreNext == ComputeLeaderboard

ScoreSpec == ScoreInit /\ [][ScoreNext]_vars

(***************************************************************************)
(* C2                                                                      *)
(***************************************************************************)
InWindowShipmentsOf(c, pid) ==
    {s \in shipments :
        /\ s.created_at >= c.first_day
        /\ s.created_at <= c.last_day + 1
        /\ \E col \in Collections :
              /\ col.id = s.collection_id
              /\ col.profile_id = pid
              /\ col.active
              /\ col.brigade_id \in c.brigade_ids}

\* C2: every leaderboard entry's credits are
\* credits_by_vote * vote_count + credits_by_shipment * shipment_count
\* + credits_by_unit * units_count; a weight of 0 leaves only the other two
\* terms, and units_count is 0 for a participant without in-window shipments.
C2_CreditsFormula ==
    enginePc = "done" =>
        \A i \in 1..Len(board) :
            LET e == board[i]
                c == contest[1]
            IN  /\ e.credits = c.credits_by_vote * e.vote_count
                                + c.credits_by_shipment * e.shipment_count
                                + c.credits_by_unit * e.units_count
                /\ c.credits_by_vote = 0 =>
                      e.credits = c.credits_by_shipment * e.shipment_count
                                    + c.credits_by_unit * e.units_count
                /\ c.credits_by_shipment = 0 =>
                      e.credits = c.credits_by_vote * e.vote_count
                                    + c.credits_by_unit * e.units_count
                /\ c.credits_by_unit = 0 =>
                      e.credits = c.credits_by_vote * e.vote_count
                                    + c.credits_by_shipment * e.shipment_count
                /\ InWindowShipmentsOf(c, e.id) = {} => e.units_count = 0

C2_Witness ==
    /\ enginePc = "done"
    /\ contest[1].credits_by_vote = 2
    /\ contest[1].credits_by_shipment = 5
    /\ contest[1].credits_by_unit = 3
    /\ \E i \in 1..Len(board) :
          /\ board[i].vote_count = 2
          /\ board[i].shipment_count = 1
          /\ board[i].units_count = 2
          /\ board[i].credits = 15
    /\ \E i \in 1..Len(board) :
          /\ board[i].units_count = 0
          /\ board[i].credits = 0

(***************************************************************************)
(* C14                                                                     *)
(***************************************************************************)
VerifiedInWindowVotesOf(c, pid) ==
    {v \in contest_votes :
        /\ v.contest_id = c.id
        /\ v.profile_id = pid
        /\ v.contest_email \in verified
        /\ v.created_at >= c.first_day
        /\ v.created_at <= c.last_day + 1}

Placings(entries) ==
    [i \in 1..Len(entries) |->
        <<entries[i].id, entries[i].credits, entries[i].rank>>]

\* C14: an entry's vote count is the number of the participant's votes that
\* are verified and inside the scoring window, so an unverified or
\* out-of-window vote adds nothing and k verified in-window votes count as
\* k; with weights vote 1, shipment 0, unit 0, participant 1 with two such
\* votes and participant 2 with none, the leaderboard is participant 1 with
\* credits 2 at rank 1, then participant 2 with credits 0 at rank 2.
C14_VerifiedVotesCount ==
    enginePc = "done" =>
        LET c == contest[1]
        IN  /\ \A i \in 1..Len(board) :
                  board[i].vote_count =
                      Cardinality(VerifiedInWindowVotesOf(c, board[i].id))
            /\ ( /\ c.credits_by_vote = 1
                 /\ c.credits_by_shipment = 0
                 /\ c.credits_by_unit = 0
                 /\ Cardinality(VerifiedInWindowVotesOf(c, 1)) = 2
                 /\ VerifiedInWindowVotesOf(c, 2) = {} )
               => Placings(board) = << <<1, 2, 1>>, <<2, 0, 2>> >>

C14_Witness ==
    /\ enginePc = "done"
    /\ contest[1].credits_by_vote = 1
    /\ contest[1].credits_by_shipment = 0
    /\ contest[1].credits_by_unit = 0
    /\ Cardinality(VerifiedInWindowVotesOf(contest[1], 1)) = 2
    /\ VerifiedInWindowVotesOf(contest[1], 2) = {}
    /\ Placings(board) = << <<1, 2, 1>>, <<2, 0, 2>> >>

(***************************************************************************)
(* WindowSpec: leaderboard_calc over activity created before, during and   *)
(* after the contest                                                       *)
(***************************************************************************)
\* from the day before first_day to two days after last_day
WindowTimes(c) == (c.first_day - OneDay)..(c.last_day + OneDay + 1)

WindowVoteShapes(c) ==
    [contest_id : {c.id}, profile_id : {1, 2}, created_at : WindowTimes(c)]

WindowShipmentShapes(c) ==
    [collection_id : {1}, created_at : WindowTimes(c), units_collected : {2}]

WindowInit ==
    /\ contest = [i \in {1} |-> DefaultContest(i)]
    /\ \E n \in 0..MaxVotes :
          \E f \in [1..n -> WindowVoteShapes(DefaultContest(1))] :
              /\ contest_votes = {WithEmail(f[i], i) : i \in 1..n}
              /\ verified = 1..n
    /\ \E n \in 0..MaxShipments :
          \E f \in [1..n -> WindowShipmentShapes(DefaultContest(1))] :
              shipments = {WithId(f[i], i) : i \in 1..n}
    /\ board = <<>>
    /\ enginePc = "input"
    /\ lb = <<>>
    /\ ranked = <<>>
    /\ rankPc = "off"
    /\ queue = <<>>
    /\ worker = <<>>
    /\ cache = <<>>
    /\ reader = <<>>

WindowNext == ComputeLeaderboard

WindowSpec == WindowInit /\ [][WindowNext]_vars

(***************************************************************************)
(* C15                                                                     *)
(***************************************************************************)
\* the instants at which the leaderboard of a running contest is computed
ComputeTimes(c) == (c.first_day)..(c.last_day + 1)

RollingVotesOf(c, pid, asOf) ==
    {v \in contest_votes :
        /\ v.contest_id = c.id
        /\ v.profile_id = pid
        /\ v.contest_email \in verified
        /\ v.created_at >= asOf - 1
        /\ v.created_at <= asOf + 1}

RollingShipmentsOf(c, pid, asOf) ==
    {s \in shipments :
        /\ s.created_at >= asOf - 1
        /\ s.created_at <= asOf + 1
        /\ \E col \in Collections :
              /\ col.id = s.collection_id
              /\ col.profile_id = pid
              /\ col.active
              /\ col.brigade_id \in c.brigade_ids}

\* C15 as claimed: whenever the leaderboard is computed, a vote or shipment
\* is counted exactly when its timestamp lies in the rolling window from one
\* day before to one day after the time of the computation.
C15_RollingWindow ==
    enginePc = "done" =>
        \A asOf \in ComputeTimes(contest[1]) : \A i \in 1..Len(board) :
            /\ board[i].vote_count =
                  Cardinality(RollingVotesOf(contest[1], board[i].id, asOf))
            /\ board[i].shipment_count =
                  Cardinality(RollingShipmentsOf(contest[1], board[i].id, asOf))

\* C15 as amended: a vote or shipment is counted exactly when its timestamp
\* lies between the contest's first day and one day after its last day,
\* whatever the time of the computation; records outside that span
\* contribute nothing.
C15_ContestSpanWindow ==
    enginePc = "done" =>
        \A i \in 1..Len(board) :
            /\ board[i].vote_count =
                  Cardinality(VerifiedInWindowVotesOf(contest[1], board[i].id))
            /\ board[i].shipment_count =
                  Cardinality(InWindowShipmentsOf(contest[1], board[i].id))

C15_Witness ==
    /\ enginePc = "done"
    /\ \E i \in 1..Len(board) :
          /\ board[i].vote_count = 2
          /\ \E v, w \in contest_votes :
                /\ v.profile_id = board[i].id
                /\ w.profile_id = board[i].id
                /\ v.created_at = contest[1].first_day
                /\ w.created_at = contest[1].last_day + 1
    /\ \E s \in shipments : s.created_at = contest[1].last_day + 2
    /\ \A i \in 1..Len(board) : board[i].shipment_count = 0

(***************************************************************************)
(* OrderSpec: ORDER BY over rows whose text columns mix upper and lower     *)
(* case.  The order clause names the bare columns, so the comparison is the *)
(* one of the database's collation: by character code, or one that ignores  *)
(* case.                                                                    *)
(***************************************************************************)
MaxNamedRows == 2

Collations == {"bytewise", "case_insensitive"}

\* the upper-case letter of a lower-case one
UpperCase(x) == IF x \in 97..122 THEN x - 32 ELSE x

CollationKey(collation, x) ==
    IF x = Null THEN Null
    ELSE IF collation = "case_insensitive" THEN UpperCase(x) ELSE x

\* ORDER BY under a collation: the rows in the order of their collation keys
OrderRowsCollated(collation, rows) ==
    LET keyed == [i \in DOMAIN rows |->
                    [credits           |-> rows[i].credits,
                     organization_name |-> CollationKey(collation, rows[i].organization_name),
                     city              |-> CollationKey(collation, rows[i].city),
                     region_code       |-> CollationKey(collation, rows[i].region_code),
                     zipcode           |-> CollationKey(collation, rows[i].zipcode),
                     at                |-> i]]
        sorted == OrderRows(keyed)
    IN  [k \in DOMAIN sorted |-> rows[sorted[k].at]]

\* rows named "B" or "a", in a city "B" or "a", with or without a region
NamedRowShapes ==
    [credits : {5, 8}, organization_name : {66, 97}, city : {66, 97},
     region_code : {Null, 78}, zipcode : {49, 50}]

OrderInit ==
    /\ \E collation \in Collations, n \in 0..MaxNamedRows :
          \E f \in [1..n -> NamedRowShapes] :
              lb = [collation |-> collation, rows |-> [i \in 1..n |-> WithId(f[i], i)]]
    /\ ranked = <<>>
    /\ rankPc = "input"
    /\ contest = <<>>
    /\ contest_votes = {}
    /\ verified = {}
    /\ shipments = {}
    /\ board = <<>>
    /\ enginePc = "off"
    /\ queue = <<>>
    /\ worker = <<>>
    /\ cache = <<>>
    /\ reader = <<>>

\* leaderboard_calc on the rows, in a database of the drawn collation
OrderNamedRows ==
    /\ rankPc = "input"
    /\ ranked' = calculate_ranks(OrderRowsCollated(lb.collation, lb.rows))
    /\ rankPc' = "done"
    /\ UNCHANGED <<lb, dataVars, engineVars, cacheVars>>

OrderNext == OrderNamedRows

OrderSpec == OrderInit /\ [][OrderNext]_vars

(***************************************************************************)
(* C16                                                                     *)
(***************************************************************************)
FoldedKeys(e) ==
    <<UpperCase(e.organization_name), UpperCase(e.city),
      IF e.region_code = Null THEN Null ELSE UpperCase(e.region_code),
      UpperCase(e.zipcode)>>

\* a value precedes an absent one, and the smaller value the greater
KeyLess(x, y) == x # Null /\ (y = Null \/ x < y)

KeysAscending(a, b) ==
    \/ a = b
    \/ \E k \in 1..Len(a) :
          /\ \A j \in 1..(k - 1) : a[j] = b[j]
          /\ KeyLess(a[k], b[k])

\* C16: among entries with equal credits the order is ascending, ignoring
\* case, by organization name, then city, then region code, then postal
\* code.
C16_CaseInsensitiveTieBreak ==
    rankPc = "done" =>
        \A i, j \in 1..Len(ranked) :
            (i < j /\ ranked[i].credits = ranked[j].credits) =>
                KeysAscending(FoldedKeys(ranked[i]), FoldedKeys(ranked[j]))

(***************************************************************************)
(* EligSpec: allowed_profiles over drawn eligibility settings              *)
(***************************************************************************)
EligInit ==
    /\ \E white \in BOOLEAN, ids \in SUBSET UserIds,
          types \in SUBSET OrganizationTypeIds, regs \in SUBSET RegionIds,
          brigades \in {{1}, {1, 2}} :
          contest = [i \in {1} |->
                        [DefaultContest(i) EXCEPT !.users_list_white = white,
                                                  !.users_list_ids = ids,
                                                  !.select_options = types,
                                                  !.regions = regs,
                                                  !.brigade_ids = brigades]]
    /\ contest_votes = {}
    /\ verified = {}
    /\ shipments = {}
    /\ board = {}
    /\ enginePc = "input"
    /\ lb = <<>>
    /\ ranked = <<>>
    /\ rankPc = "off"
    /\ queue = <<>>
    /\ worker = <<>>
    /\ cache = <<>>
    /\ reader = <<>>

ListAllowedProfiles ==
    /\ enginePc = "input"
    /\ board' = allowed_profiles(contest[1])
    /\ enginePc' = "done"
    /\ UNCHANGED <<dataVars, rankVars, cacheVars>>

EligNext == ListAllowedProfiles

EligSpec == EligInit /\ [][EligNext]_vars

(***************************************************************************)
(* C10                                                                     *)
(***************************************************************************)
Participants == {p \in Profiles : p.country_id = 1}

ListedOwner(c, p) == p.user_id \in c.users_list_ids

MeetsConstraints(c, p) ==
    /\ (c.select_options # {} => p.organization_type_id \in c.select_options)
    /\ (c.regions # {} => p.region_id \in c.regions)

WhitelistCase ==
    /\ enginePc = "done"
    /\ contest[1].users_list_white
    /\ contest[1].users_list_ids # {}

\* C10 as claimed: in whitelist mode with a non-empty list the eligible set
\* is the participants whose owning user is listed and who satisfy the
\* category and region constraints that are present.
C10_WhitelistWithConstraints ==
    WhitelistCase =>
        board = {p \in Participants :
                    ListedOwner(contest[1], p) /\ MeetsConstraints(contest[1], p)}

CurrentProfileOfListed(c, p) ==
    \E u \in Users : u.id \in c.users_list_ids /\ u.current_profile = p.id

\* C10 as amended: in whitelist mode with a non-empty list the eligible set
\* is exactly the participants that are the current profile of a listed
\* user; the category and region constraints are not applied in whitelist
\* mode.
C10_WhitelistIgnoresConstraints ==
    WhitelistCase =>
        board = {p \in Participants : CurrentProfileOfListed(contest[1], p)}

C10_Witness ==
    /\ WhitelistCase
    /\ contest[1].regions # {}
    /\ contest[1].select_options # {}
    /\ \E p \in board : ~MeetsConstraints(contest[1], p)
    /\ \E p \in Participants : p \notin board

(***************************************************************************)
(* C11                                                                     *)
(***************************************************************************)
BlacklistCase ==
    /\ enginePc = "done"
    /\ ~contest[1].users_list_white

\* C11: in blacklist mode the eligible set is exactly the participants that
\* satisfy the category and region constraints that are present (all
\* participants when none is set) minus those whose owning user is listed.
C11_BlacklistMinusListed ==
    BlacklistCase =>
        board = {p \in Participants :
                    MeetsConstraints(contest[1], p) /\ ~ListedOwner(contest[1], p)}

C11_Witness ==
    /\ BlacklistCase
    /\ contest[1].users_list_ids # {}
    /\ contest[1].regions # {}
    /\ board # {}
    /\ \E p \in Participants :
          MeetsConstraints(contest[1], p) /\ ListedOwner(contest[1], p) /\ p \notin board
    /\ \E p \in Participants :
          ~MeetsConstraints(contest[1], p) /\ ~ListedOwner(contest[1], p) /\ p \notin board

(***************************************************************************)
(* ModeSpec: allowed_profiles of one configuration in both list modes      *)
(***************************************************************************)
InMode(c, white) == [c EXCEPT !.users_list_white = white]

ModeInit ==
    /\ \E ids \in SUBSET UserIds, types \in SUBSET OrganizationTypeIds,
          regs \in SUBSET RegionIds, brigades \in {{1}, {1, 2}} :
          contest = [i \in {1} |->
                        [DefaultContest(i) EXCEPT !.users_list_ids = ids,
                                                  !.select_options = types,
                                                  !.regions = regs,
                                                  !.brigade_ids = brigades]]
    /\ contest_votes = {}
    /\ verified = {}
    /\ shipments = {}
    /\ board = [whitelist |-> {}, blacklist |-> {}]
    /\ enginePc = "input"
    /\ lb = <<>>
    /\ ranked = <<>>
    /\ rankPc = "off"
    /\ queue = <<>>
    /\ worker = <<>>
    /\ cache = <<>>
    /\ reader = <<>>

\* allowed_profiles of the whitelisted and of the blacklisted contest that
\* agree on every other attribute
ListBothModes ==
    /\ enginePc = "input"
    /\ board' = [whitelist |-> allowed_profiles(InMode(contest[1], TRUE)),
                 blacklist |-> allowed_profiles(InMode(contest[1], FALSE))]
    /\ enginePc' = "done"
    /\ UNCHANGED <<dataVars, rankVars, cacheVars>>

ModeNext == ListBothModes

ModeSpec == ModeInit /\ [][ModeNext]_vars

(***************************************************************************)
(* C12                                                                     *)
(***************************************************************************)
\* C12 as claimed: for every listed set, the empty one included, the
\* whitelist result and the blacklist result of one configuration partition
\* the participants.
C12_ModesPartition ==
    enginePc = "done" =>
        /\ board.whitelist \cup board.blacklist = Participants
        /\ board.whitelist \cap board.blacklist = {}

\* C12 as amended: with a non-empty listed set the two results are disjoint
\* and their union is the participants that are the current profile of a
\* listed user or satisfy the category and region constraints; with an empty listed set the whitelist
\* result is all participants and the blacklist result is the participants
\* that satisfy the constraints.
C12_ModesDisjointWhenListed ==
    enginePc = "done" =>
        /\ contest[1].users_list_ids # {} =>
              /\ board.whitelist \cap board.blacklist = {}
              /\ board.whitelist \cup board.blacklist =
                    {p \in Participants :
                        \/ CurrentProfileOfListed(contest[1], p)
                        \/ MeetsConstraints(contest[1], p)}
        /\ contest[1].users_list_ids = {} =>
              /\ board.whitelist = Participants
              /\ board.blacklist =
                    {p \in Participants : MeetsConstraints(contest[1], p)}

C12_Witness ==
    /\ enginePc = "done"
    /\ contest[1].users_list_ids # {}
    /\ contest[1].regions # {}
    /\ board.whitelist # {}
    /\ board.blacklist # {}
    /\ board.whitelist \cup board.blacklist # Participants

(***************************************************************************)
(* C13                                                                     *)
(***************************************************************************)
\* C13: with an empty listed set the list excludes nobody in either mode:
\* the whitelisted contest admits every participant and the blacklisted one
\* every participant that satisfies the category and region constraints.
C13_EmptyListNoRestriction ==
    (enginePc = "done" /\ contest[1].users_list_ids = {}) =>
        /\ contest[1].users_list_white => board = Participants
        /\ ~contest[1].users_list_white =>
              board = {p \in Participants : MeetsConstraints(contest[1], p)}

C13_Witness ==
    /\ enginePc = "done"
    /\ contest[1].users_list_ids = {}
    /\ contest[1].users_list_white
    /\ board = Participants
    /\ board # {}

(***************************************************************************)
(* Spec: the cached leaderboard.  Contest commits, verified votes and the  *)
(* admin's "Update Now" enqueue ContestGenerateLeaderboard jobs; one       *)
(* Resque worker performs them; requests read through Contest#leaderboard. *)
(***************************************************************************)
MaxQueue == 3

MaxVerified == 2

\* values of credits_by_vote the admin form submits
VoteCredits == {1, 2}

\* what a computation read: a history field, used by the properties only
Snapshot(c) ==
    [weights  |-> <<contest[c].credits_by_vote, contest[c].credits_by_shipment,
                    contest[c].credits_by_unit>>,
     votes    |-> contest_votes,
     verified |-> verified]

NoSnapshot == [weights |-> <<>>, votes |-> {}, verified |-> {}]

IdleWorker == [busy |-> FALSE, job |-> 0, result |-> <<>>, from |-> NoSnapshot]

NoEntry == [exists |-> FALSE, value |-> <<>>, from |-> NoSnapshot]

\* the value a caller of Contest#leaderboard receives: always a plain list
ReturnedList(entries) == [unavailable |-> FALSE, entries |-> entries]

IdleReader ==
    [pc |-> "idle", contest |-> 0, hit |-> FALSE, returned |-> ReturnedList(<<>>),
     from |-> NoSnapshot]

Init ==
    /\ contest = [i \in {1} |-> DefaultContest(i)]
    /\ contest_votes = {}
    /\ verified = {}
    /\ shipments = {}
    /\ queue = <<>>
    /\ worker = IdleWorker
    /\ cache = [i \in {1} |-> NoEntry]
    /\ reader = IdleReader
    /\ board = <<>>
    /\ enginePc = "off"
    /\ lb = <<>>
    /\ ranked = <<>>
    /\ rankPc = "off"

\* Resque.enqueue(ContestGenerateLeaderboard, id) if leaderboard_display_address
leaderboard_cache_key_without_id(id) == 1

\* "#{Country.current.code}_contest/#{id}/leaderboard": within the current
\* country the key is told apart by the contest id alone
leaderboard_cache_key(id) == id

invalidate_leaderboard_enqueues_nothing(q, rec) == q

invalidate_leaderboard(q, rec) ==
    IF rec.leaderboard_display_address THEN Append(q, rec.id) ELSE q

\* the admin saves changed settings; after_commit :invalidate_leaderboard
UpdateContest(c) ==
    /\ Len(queue) < MaxQueue
    /\ \E cv \in VoteCredits, flag \in BOOLEAN :
          /\ <<cv, flag>> # <<contest[c].credits_by_vote,
                              contest[c].leaderboard_display_address>>
          /\ contest' = [contest EXCEPT ![c].credits_by_vote = cv,
                                        ![c].leaderboard_display_address = flag]
    /\ queue' = invalidate_leaderboard(queue, contest'[c])
    /\ UNCHANGED <<contest_votes, verified, shipments, worker, cache, reader,
                   engineVars, rankVars>>

\* a vote for participant p is verified (ContestsController#verify); an
\* unverified vote is seen by no query, so the row appears here, verified
RecordVerifiedVote(c) ==
    /\ Len(queue) < MaxQueue
    /\ Cardinality(contest_votes) < MaxVerified
    /\ \E p \in {1, 2} :
          LET i == Cardinality(contest_votes) + 1
          IN  /\ contest_votes' = contest_votes \cup
                    {[id |-> i, contest_id |-> c, profile_id |-> p,
                      contest_email |-> i, created_at |-> contest[c].first_day]}
              /\ verified' = verified \cup {i}
    /\ queue' = invalidate_leaderboard(queue, contest[c])
    /\ UNCHANGED <<contest, shipments, worker, cache, reader, engineVars, rankVars>>

\* member_action :update_leaderboard
UpdateLeaderboard(c) ==
    /\ Len(queue) < MaxQueue
    /\ queue' = invalidate_leaderboard(queue, contest[c])
    /\ UNCHANGED <<dataVars, worker, cache, reader, engineVars, rankVars>>

\* Contest#leaderboard, cache miss: enqueue a job and return []
ReadMiss(c) ==
    /\ contest[c].leaderboard_enabled
    /\ reader.pc \in {"idle", "done"}
    /\ ~cache[leaderboard_cache_key(c)].exists
    /\ Len(queue) < MaxQueue
    /\ queue' = invalidate_leaderboard(queue, contest[c])
    /\ reader' = [pc |-> "done", contest |-> c, hit |-> FALSE,
                  returned |-> ReturnedList(<<>>), from |-> NoSnapshot]
    /\ UNCHANGED <<dataVars, worker, cache, engineVars, rankVars>>

\* Contest#leaderboard: Rails.cache.exist? answered true
ReadExists(c) ==
    /\ contest[c].leaderboard_enabled
    /\ reader.pc \in {"idle", "done"}
    /\ cache[leaderboard_cache_key(c)].exists
    /\ reader' = [IdleReader EXCEPT !.pc = "read", !.contest = c]
    /\ UNCHANGED <<dataVars, queue, worker, cache, engineVars, rankVars>>

\* Contest#leaderboard: Rails.cache.read
ReadFetch ==
    /\ reader.pc = "read"
    /\ reader' = [pc |-> "done", contest |-> reader.contest, hit |-> TRUE,
                  returned |->
                      ReturnedList(cache[leaderboard_cache_key(reader.contest)].value),
                  from |-> cache[leaderboard_cache_key(reader.contest)].from]
    /\ UNCHANGED <<dataVars, queue, worker, cache, engineVars, rankVars>>

\* the worker reserves the next job and runs leaderboard_calc
StartPerform ==
    /\ ~worker.busy
    /\ queue # <<>>
    /\ LET c == Head(queue)
       IN  \E scan \in Scans(raw_numbers(contest[c])) :
              worker' = [busy |-> TRUE, job |-> c,
                         result |-> leaderboard_calc(contest[c], scan),
                         from |-> Snapshot(c)]
    /\ queue' = Tail(queue)
    /\ UNCHANGED <<dataVars, cache, reader, engineVars, rankVars>>

\* the worker writes the finished list under leaderboard_cache_key
Publish ==
    /\ worker.busy
    /\ cache' = [cache EXCEPT ![leaderboard_cache_key(worker.job)] =
                    [exists |-> TRUE, value |-> worker.result, from |-> worker.from]]
    /\ worker' = IdleWorker
    /\ UNCHANGED <<dataVars, queue, reader, engineVars, rankVars>>

\* the job raises before it writes: nothing is published and the
\* dispatcher schedules the job again
PerformFails ==
    /\ worker.busy
    /\ Len(queue) < MaxQueue
    /\ worker' = IdleWorker
    /\ queue' = Append(queue, worker.job)
    /\ UNCHANGED <<dataVars, cache, reader, engineVars, rankVars>>

Next ==
    \/ \E c \in DOMAIN contest : UpdateContest(c)
    \/ \E c \in DOMAIN contest : RecordVerifiedVote(c)
    \/ \E c \in DOMAIN contest : UpdateLeaderboard(c)
    \/ \E c \in DOMAIN contest : ReadMiss(c)
    \/ \E c \in DOMAIN contest : ReadExists(c)
    \/ ReadFetch
    \/ StartPerform
    \/ Publish
    \/ PerformFails

Spec == Init /\ [][Next]_vars

(***************************************************************************)
(* C3 - C9                                                                 *)
(***************************************************************************)
Queued(c) == Cardinality({i \in 1..Len(queue) : queue[i] = c})

Performing(c) == worker.busy /\ worker.job = c

\* C3: while one recompute of a contest is in flight, the invalidate calls
\* that arrive leave exactly one further recompute to run after it, not one
\* per call: at most one job of the contest waits behind the running one.
C3_InvalidationsCoalesce ==
    \A c \in DOMAIN contest : Performing(c) => Queued(c) <= 1

\* C4: at most one recompute of a contest is in flight, queued or executing.
C4_OneRecomputeInFlight ==
    \A c \in DOMAIN contest :
        Queued(c) + (IF Performing(c) THEN 1 ELSE 0) <= 1

\* the participants a computation of contest c must list: the profiles of
\* the current country with an active collection under a brigade of c (the
\* contests of Spec keep the factory's eligibility: blacklist, empty list)
ExpectedEntryIds(c) ==
    {p.id : p \in {x \in Profiles :
        /\ x.country_id = 1
        /\ \E col \in Collections :
              col.profile_id = x.id /\ col.active /\ col.brigade_id \in contest[c].brigade_ids}}

ExpectedCredits(c, snap, pid) ==
    snap.weights[2] * 0 + snap.weights[3] * 0 + snap.weights[1] *
        Cardinality({v \in snap.votes :
            /\ v.contest_id = c
            /\ v.profile_id = pid
            /\ v.contest_email \in snap.verified
            /\ v.created_at >= contest[c].first_day
            /\ v.created_at <= contest[c].last_day + 1})

\* entries is a complete ranked leaderboard of contest c for the data snap
IsWholeBoard(entries, snap, c) ==
    /\ snap # NoSnapshot
    /\ Len(entries) = Cardinality(ExpectedEntryIds(c))
    /\ {entries[i].id : i \in 1..Len(entries)} = ExpectedEntryIds(c)
    /\ \A i \in 1..Len(entries) :
          /\ entries[i].credits = ExpectedCredits(c, snap, entries[i].id)
          /\ entries[i].rank = FirstWithCredits(entries, entries[i].credits)
    /\ \A i, j \in 1..Len(entries) : i < j => entries[i].credits >= entries[j].credits

\* C5: a cache entry is always one complete ranked list, the one a single
\* computation produced from one state of the data, and so is every list a
\* read returns from the cache, whatever recompute ran between the read's
\* exist? and its fetch.
C5_WholeListsOnly ==
    /\ \A c \in DOMAIN contest :
          cache[c].exists => IsWholeBoard(cache[c].value, cache[c].from, c)
    /\ (reader.pc = "done" /\ reader.hit) =>
          IsWholeBoard(reader.returned.entries, reader.from, reader.contest)

\* a read that began on one list and fetched the list a recompute published
\* in between, while a third version of the data is already there
C5_Witness ==
    /\ reader.pc = "done"
    /\ reader.hit
    /\ Len(reader.returned.entries) = 2
    /\ reader.returned.entries[1].credits = 2
    /\ reader.from # Snapshot(reader.contest)
    /\ worker.busy
    /\ worker.from # reader.from

\* C6: a read that finds no cache entry returns an explicit 'unavailable'
\* result, not an empty list.
C6_MissIsUnavailable ==
    (reader.pc = "done" /\ ~reader.hit) => reader.returned.unavailable

\* C7: whatever a read returns is a previously published snapshot (possibly
\* stale) or the explicit unavailable marker.
C7_SnapshotOrUnavailable ==
    reader.pc = "done" =>
        \/ reader.returned.unavailable
        \/ /\ reader.hit
           /\ IsWholeBoard(reader.returned.entries, reader.from, reader.contest)

Quiescent(c) == Queued(c) = 0 /\ ~Performing(c)

\* C8: once a contest has a published leaderboard and no recompute of it is
\* queued or running any more, the cache holds a leaderboard computed from
\* the latest data.
C8_QuiescentIsFresh ==
    \A c \in DOMAIN contest :
        (Quiescent(c) /\ cache[c].exists) =>
            IsWholeBoard(cache[c].value, Snapshot(c), c)

\* C9: every mutation event of a contest, a committed settings change or a
\* verified vote, schedules a recompute of it.
C9_MutationSchedulesRecompute ==
    [][\A c \in DOMAIN contest :
          (contest'[c] # contest[c]
             \/ {v \in contest_votes' : v.contest_id = c} # {v \in contest_votes : v.contest_id = c})
          => (Len(queue') = Len(queue) + 1 /\ queue'[Len(queue')] = c)]_vars

(***************************************************************************)
(* RepeatSpec: leaderboard_calc called again and again on one contest,     *)
(* whose credits_by_vote may be raised in between                          *)
(***************************************************************************)
MaxRecomputes == 2

\* verified votes cast on the first day for the contestants of brigade 2
RepeatVoteShapes(c) ==
    [contest_id : {c.id}, profile_id : {2, 3, 5}, created_at : {c.first_day}]

RepeatShipmentShapes(c) ==
    [collection_id : {4}, created_at : {c.first_day}, units_collected : {2}]

RepeatInit ==
    /\ \E cs \in {0, 1} :
          contest = [i \in {1} |->
                        [DefaultContest(i) EXCEPT !.credits_by_vote = 0,
                                                  !.credits_by_shipment = cs,
                                                  !.brigade_ids = {2}]]
    /\ \E n \in 0..MaxVotes :
          \E f \in [1..n -> RepeatVoteShapes(DefaultContest(1))] :
              /\ contest_votes = {WithEmail(f[i], i) : i \in 1..n}
              /\ verified = 1..n
    /\ \E n \in 0..MaxShipments :
          \E f \in [1..n -> RepeatShipmentShapes(DefaultContest(1))] :
              shipments = {WithId(f[i], i) : i \in 1..n}
    /\ board = <<>>
    /\ enginePc = "input"
    /\ queue = <<>>
    /\ lb = <<>>
    /\ ranked = <<>>
    /\ rankPc = "off"
    /\ worker = <<>>
    /\ cache = <<>>
    /\ reader = <<>>

\* contest.leaderboard_calc; the outputs are kept in the order of the calls,
\* each with the credits_by_vote it was computed under
Recompute ==
    /\ Len(board) < MaxRecomputes
    /\ \E scan \in Scans(raw_numbers(contest[1])) :
          board' = Append(board,
                      [credits_by_vote |-> contest[1].credits_by_vote,
                       entries |-> leaderboard_calc(contest[1], scan)])
    /\ UNCHANGED <<dataVars, enginePc, rankVars, cacheVars>>

\* contest.update_attributes('credits_by_vote' => 2), then the after_commit
RaiseCreditsByVote ==
    /\ contest[1].credits_by_vote = 0
    /\ contest' = [contest EXCEPT ![1].credits_by_vote = 2]
    /\ queue' = invalidate_leaderboard(queue, contest'[1])
    /\ UNCHANGED <<contest_votes, verified, shipments, worker, cache, reader,
                   engineVars, rankVars>>

RepeatNext ==
    \/ Recompute
    \/ RaiseCreditsByVote

RepeatSpec == RepeatInit /\ [][RepeatNext]_vars

(***************************************************************************)
(* C17                                                                     *)
(***************************************************************************)
\* C17: two computations in a row with no mutation between them give the
\* same entries in the same order with the same credits and ranks, also
\* when participants tie on credits and on every tie-break key.
C17_RecomputeTwiceSame ==
    \A k \in 1..(Len(board) - 1) :
        board[k].credits_by_vote = board[k + 1].credits_by_vote =>
            board[k].entries = board[k + 1].entries

(***************************************************************************)
(* C18                                                                     *)
(***************************************************************************)
EntryOf(entries, pid) ==
    entries[CHOOSE k \in 1..Len(entries) : entries[k].id = pid]

PositionOf(entries, pid) == CHOOSE k \in 1..Len(entries) : entries[k].id = pid

IdsOf(entries) == {entries[k].id : k \in 1..Len(entries)}

\* C18: between a computation under credits_by_vote 0 and one under
\* credits_by_vote 2 on the same activity, the credits of every participant
\* with votes grow, those of every participant without votes stay, and two
\* participants with the same vote count keep their relative order.
C18_RaisingVoteCredits ==
    \A i, j \in 1..Len(board) :
        (board[i].credits_by_vote = 0 /\ board[j].credits_by_vote = 2) =>
            LET before == board[i].entries
                after  == board[j].entries
            IN  /\ IdsOf(before) = IdsOf(after)
                /\ \A p \in IdsOf(after) :
                      /\ EntryOf(after, p).vote_count > 0 =>
                            EntryOf(after, p).credits > EntryOf(before, p).credits
                      /\ EntryOf(after, p).vote_count = 0 =>
                            EntryOf(after, p).credits = EntryOf(before, p).credits
                /\ \A p, q \in IdsOf(after) :
                      EntryOf(after, p).vote_count = EntryOf(after, q).vote_count =>
                          (PositionOf(before, p) < PositionOf(before, q)
                              <=> PositionOf(after, p) < PositionOf(after, q))

(***************************************************************************)
(* EmptySpec: the cached leaderboard of a contest nobody is eligible for   *)
(***************************************************************************)
\* a whitelisted contest whose only listed user belongs to another country
EmptyInit ==
    /\ contest = [i \in {1} |->
                    [DefaultContest(i) EXCEPT !.users_list_white = TRUE,
                                              !.users_list_ids = {4}]]
    /\ contest_votes = {}
    /\ verified = {}
    /\ shipments = {}
    /\ queue = <<>>
    /\ worker = IdleWorker
    /\ cache = [i \in {1} |-> NoEntry]
    /\ reader = IdleReader
    /\ board = <<>>
    /\ enginePc = "off"
    /\ lb = <<>>
    /\ ranked = <<>>
    /\ rankPc = "off"

EmptySpec == EmptyInit /\ [][Next]_vars

(***************************************************************************)
(* C19                                                                     *)
(***************************************************************************)
\* what Contest#leaderboard hands out when no entry has been computed
ResultOnMiss == ReturnedList(<<>>)

\* C19: for a contest with an empty eligible set, a read served from a
\* published entry returns the empty sequence, and what it returns differs
\* from what a read returns when nothing has been computed.
C19_EmptyBoardNotUnavailable ==
    ( /\ reader.pc = "done"
      /\ reader.hit
      /\ allowed_profiles(contest[reader.contest]) = {} )
    => /\ reader.returned.entries = <<>>
       /\ reader.returned # ResultOnMiss

(***************************************************************************)
(* PairSpec: two contests share the job queue, the worker and the cache    *)
(* store                                                                   *)
(***************************************************************************)
\* one verified vote in each contest, for different participants
PairVotes ==
    { [id |-> 1, contest_id |-> 1, profile_id |-> 1, contest_email |-> 1,
       created_at |-> DefaultContest(1).first_day],
      [id |-> 2, contest_id |-> 2, profile_id |-> 2, contest_email |-> 2,
       created_at |-> DefaultContest(2).first_day] }

PairInit ==
    /\ contest = [i \in {1, 2} |-> DefaultContest(i)]
    /\ contest_votes \in SUBSET PairVotes
    /\ verified = {v.contest_email : v \in PairVotes}
    /\ shipments = {}
    /\ queue = <<>>
    /\ worker = IdleWorker
    /\ cache = [i \in {1, 2} |-> NoEntry]
    /\ reader = IdleReader
    /\ board = <<>>
    /\ enginePc = "off"
    /\ lb = <<>>
    /\ ranked = <<>>
    /\ rankPc = "off"

PairNext ==
    \/ \E c \in DOMAIN contest : UpdateLeaderboard(c)
    \/ \E c \in DOMAIN contest : ReadMiss(c)
    \/ \E c \in DOMAIN contest : ReadExists(c)
    \/ ReadFetch
    \/ StartPerform
    \/ Publish

PairSpec == PairInit /\ [][PairNext]_vars

(***************************************************************************)
(* C20                                                                     *)
(***************************************************************************)
\* the step is an operation on contest a
OperatesOn(a) ==
    \/ UpdateLeaderboard(a)
    \/ ReadMiss(a)
    \/ ReadExists(a)
    \/ ReadFetch /\ reader.contest = a
    \/ StartPerform /\ Head(queue) = a
    \/ Publish /\ worker.job = a

PendingJobs(q, b) == SelectSeq(q, LAMBDA j : j = b)

InFlight(w, b) == w.busy /\ w.job = b

\* C20: an invalidation, recompute, publish or read of one contest leaves
\* every other contest's cache entry, pending jobs and recompute in flight
\* as they were, and a read of a contest returns that contest's own cache
\* entry (or the empty list when it has none), whatever was done to others.
C20_ContestsIndependent ==
    [][ \A a \in DOMAIN contest :
            /\ OperatesOn(a) =>
                  \A b \in DOMAIN contest \ {a} :
                      /\ cache'[b] = cache[b]
                      /\ PendingJobs(queue', b) = PendingJobs(queue, b)
                      /\ InFlight(worker', b) = InFlight(worker, b)
                      /\ InFlight(worker, b) => worker' = worker
            /\ (reader'.pc = "done" /\ reader'.contest = a /\ reader' # reader) =>
                  reader'.returned.entries =
                      IF cache[a].exists THEN cache[a].value ELSE <<>>
      ]_vars

C20_Witness ==
    /\ cache[2].exists
    /\ cache[2].value # <<>>
    /\ ~cache[1].exists
    /\ PendingJobs(queue, 2) # <<>>
    /\ InFlight(worker, 1)
    /\ worker.result # cache[2].value
    /\ reader.pc = "done"
    /\ reader.contest = 2
    /\ reader.hit

(***************************************************************************)
(* FormSpec: the admin creates and updates one contest; every save runs    *)
(* the validations of the model                                            *)
(***************************************************************************)
\* an id no user has
UnknownUserId == 9

MaxEdits == 2

\* a form that passes every validation
FilledForm ==
    [name |-> 65, first_day |-> 2, last_day |-> 4, credits_by_vote |-> 0,
     credits_by_shipment |-> 1, credits_by_unit |-> 1, users_list_ids |-> {},
     hide_card |-> TRUE]

\* the values a field of the admin form can take; Null is a field left
\* empty, and no card image is uploaded
FormValues ==
    [name             : {Null, 65},
     first_day        : {Null, 2, 4},
     last_day         : {Null, 2, 4},
     credits_by_vote  : {Null, -2, 0, 2},
     credits_by_shipment : {-2, 1},
     credits_by_unit  : {-2, 1},
     users_list_ids   : {{}, {1}, {UnknownUserId}, {1, UnknownUserId}},
     hide_card        : BOOLEAN]

\* what the admin submits: the filled form with up to MaxEdits fields changed
ContestForms ==
    {form \in FormValues :
        Cardinality({f \in DOMAIN form : form[f] # FilledForm[f]}) <= MaxEdits}

Assign(rec, attrs) ==
    [f \in DOMAIN rec \cup DOMAIN attrs |->
        IF f \in DOMAIN attrs THEN attrs[f] ELSE rec[f]]

\* validates ..., presence: true
present(x) == x # Null

\* numericality: { greater_than_or_equal_to: 0 }
numericality_from_zero(x) == present(x) /\ x >= 0

\* no error added: the list is blank or names existing users only
list_users_exist(rec) ==
    \/ rec.users_list_ids = {}
    \/ LET wrong_ids == list_ids(rec) \
                           {u.id : u \in {x \in Users : x.id \in list_ids(rec)}}
       IN  wrong_ids = {}

correct_start_end_order_allows_same_day(rec) ==
    ~(present(rec.last_day) /\ present(rec.first_day) /\ rec.last_day < rec.first_day)

\* no error added: unless last_day && first_day && (last_day <= first_day)
correct_start_end_order(rec) ==
    ~(present(rec.last_day) /\ present(rec.first_day) /\ rec.last_day <= rec.first_day)

\* no error added: a card image is attached (never, here) or the card is hidden
card_image_presence_if_needed(rec) == rec.hide_card

\* the name is unique: there is one contest
valid(rec) ==
    /\ present(rec.name)
    /\ present(rec.first_day)
    /\ present(rec.last_day)
    /\ numericality_from_zero(rec.credits_by_shipment)
    /\ numericality_from_zero(rec.credits_by_vote)
    /\ numericality_from_zero(rec.credits_by_unit)
    /\ list_users_exist(rec)
    /\ correct_start_end_order(rec)
    /\ card_image_presence_if_needed(rec)

FormInit ==
    /\ contest = <<>>
    /\ contest_votes = {}
    /\ verified = {}
    /\ shipments = {}
    /\ queue = <<>>
    /\ worker = IdleWorker
    /\ cache = [i \in {1} |-> NoEntry]
    /\ reader = IdleReader
    /\ board = <<>>
    /\ enginePc = "input"
    /\ lb = <<>>
    /\ ranked = <<>>
    /\ rankPc = "off"

\* ResourceController#create: save, then the after_commit; render :new when
\* the record is invalid.  board keeps the submitted form, enginePc the outcome
create ==
    /\ DOMAIN contest = {}
    /\ Len(queue) < MaxQueue
    /\ \E attrs \in ContestForms :
          LET rec == Assign(DefaultContest(1), attrs)
          IN  /\ board' = attrs
              /\ IF valid(rec)
                 THEN /\ contest' = [i \in {1} |-> rec]
                      /\ queue' = invalidate_leaderboard(queue, rec)
                      /\ enginePc' = "saved"
                 ELSE /\ UNCHANGED <<contest, queue>>
                      /\ enginePc' = "invalid"
    /\ UNCHANGED <<contest_votes, verified, shipments, worker, cache, reader, rankVars>>

\* ResourceController#update: update_attributes, then the after_commit;
\* render :edit when the record is invalid
update ==
    /\ DOMAIN contest # {}
    /\ Len(queue) < MaxQueue
    /\ \E attrs \in ContestForms :
          LET rec == Assign(contest[1], attrs)
          IN  /\ rec # contest[1]
              /\ board' = attrs
              /\ IF valid(rec)
                 THEN /\ contest' = [contest EXCEPT ![1] = rec]
                      /\ queue' = invalidate_leaderboard(queue, rec)
                      /\ enginePc' = "saved"
                 ELSE /\ UNCHANGED <<contest, queue>>
                      /\ enginePc' = "invalid"
    /\ UNCHANGED <<contest_votes, verified, shipments, worker, cache, reader, rankVars>>

FormNext ==
    \/ create
    \/ update

FormSpec == FormInit /\ [][FormNext]_vars

(***************************************************************************)
(* C21                                                                     *)
(***************************************************************************)
ConfigurationInvariant(rec) ==
    /\ rec.first_day # Null
    /\ rec.last_day # Null
    /\ rec.first_day < rec.last_day
    /\ rec.credits_by_vote # Null /\ rec.credits_by_vote >= 0
    /\ rec.credits_by_shipment # Null /\ rec.credits_by_shipment >= 0
    /\ rec.credits_by_unit # Null /\ rec.credits_by_unit >= 0
    /\ \A id \in rec.users_list_ids : \E u \in Users : u.id = id

Attempted == enginePc \in {"saved", "invalid"}

\* C21: every persisted contest has first_day before last_day, the three
\* credit weights at least 0 and only existing users listed; a create or
\* update whose form violates one of these ends in a validation error and
\* leaves the persisted contest as it was.
C21_PersistedContestsValid ==
    /\ [](\A c \in DOMAIN contest : ConfigurationInvariant(contest[c]))
    /\ []((Attempted /\ ~ConfigurationInvariant(board)) => enginePc = "invalid")
    /\ [][(Attempted' /\ ~ConfigurationInvariant(board')) => contest' = contest]_vars

C21_Witness ==
    /\ DOMAIN contest # {}
    /\ enginePc = "invalid"
    /\ board.name # Null
    /\ board.hide_card
    /\ board.first_day = board.last_day
    /\ board.first_day # Null
    /\ board.credits_by_vote = 0
    /\ board.users_list_ids = {1}
    /\ contest[1].users_list_ids = {1}
    /\ contest[1].credits_by_vote = 2
    /\ queue # <<>>

(***************************************************************************)
(* SearchSpec: ContestsController#participants                             *)
(***************************************************************************)
MaxQueryLen == 2

\* .limit(5)
SearchLimit == 5

\* "a", "B", " ", and the characters LIKE gives a meaning: "%", "_", "\"
QueryChars == {97, 66, 32, 37, 95, 92}

EscapeChar == 92

sanitize_sql_like_unescaped(string) == string

\* gsub(Regexp.union("\\", "%", "_")) { |x| ["\\", x].join }
RECURSIVE sanitize_sql_like(_)
sanitize_sql_like(string) ==
    IF string = <<>> THEN <<>>
    ELSE (IF Head(string) \in {EscapeChar, 37, 95}
          THEN <<EscapeChar, Head(string)>>
          ELSE <<Head(string)>>)
             \o sanitize_sql_like(Tail(string))

\* string ILIKE pattern: "%" stands for any run of characters, "_" for any
\* one, the character after "\" for itself; letters match in either case
RECURSIVE ILike(_, _)
ILike(string, pattern) ==
    IF pattern = <<>> THEN string = <<>>
    ELSE IF Head(pattern) = 37
    THEN \/ ILike(string, Tail(pattern))
         \/ string # <<>> /\ ILike(Tail(string), pattern)
    ELSE IF Head(pattern) = EscapeChar
    THEN /\ Len(pattern) >= 2
         /\ string # <<>>
         /\ UpperCase(pattern[2]) = UpperCase(Head(string))
         /\ ILike(Tail(string), SubSeq(pattern, 3, Len(pattern)))
    ELSE /\ string # <<>>
         /\ Head(pattern) = 95 \/ UpperCase(Head(pattern)) = UpperCase(Head(string))
         /\ ILike(Tail(string), Tail(pattern))

\* a text column against the pattern; NULL ILIKE anything is not true
ColumnILike(x, pattern) == x # Null /\ ILike(<<x>>, pattern)

\* the where clause of participant_search on one row of the contestant list
SearchCondition(p, pattern) ==
    \/ ColumnILike(p.organization_name, pattern)
    \/ ILike(<<UserOf(p).first_name, 32, UserOf(p).last_name>>, pattern)
    \/ ColumnILike(p.zipcode, pattern)
    \/ ColumnILike(p.city, pattern)
    \/ ColumnILike(RegionCodeOf(p), pattern)

\* the order allowed_profiles gives: organization_name, city, zipcode
ProfileBefore(a, b) ==
    \/ ColumnBefore(a.organization_name, b.organization_name)
    \/ /\ ColumnSame(a.organization_name, b.organization_name)
       /\ \/ ColumnBefore(a.city, b.city)
          \/ /\ ColumnSame(a.city, b.city)
             /\ ColumnBefore(a.zipcode, b.zipcode)

\* the sets of rows limit(n) can keep of the ordered rows M
Limited(M, n) ==
    IF Cardinality(M) <= n THEN {M}
    ELSE {S \in SUBSET M :
            /\ Cardinality(S) = n
            /\ \A x \in S, y \in M \ S : ~ProfileBefore(y, x)}

\* the results contestant_list.uniq.where(...).limit(5) can give
participant_search(c, query) ==
    Limited({p \in {pc[1] : pc \in contestant_list(c)} :
                SearchCondition(p, <<37>> \o query \o <<37>>)},
            SearchLimit)

SearchInit ==
    /\ \E ids \in {{}, {1}}, regs \in SUBSET RegionIds, brigades \in {{1, 2}, BrigadeIds} :
          contest = [i \in {1} |->
                        [DefaultContest(i) EXCEPT !.users_list_ids = ids,
                                                  !.regions = regs,
                                                  !.brigade_ids = brigades]]
    /\ contest_votes = {}
    /\ verified = {}
    /\ shipments = {}
    /\ queue = <<>>
    /\ worker = IdleWorker
    /\ cache = [i \in {1} |-> NoEntry]
    /\ reader = IdleReader
    /\ board = [query |-> <<>>, found |-> {}]
    /\ enginePc = "input"
    /\ lb = <<>>
    /\ ranked = <<>>
    /\ rankPc = "off"

\* GET participants: board keeps params[:query] and the rows rendered
participants ==
    /\ \E query \in BoundedSeq(QueryChars, MaxQueryLen) :
          \E found \in participant_search(contest[1], sanitize_sql_like(query)) :
              board' = [query |-> query, found |-> found]
    /\ enginePc' = "done"
    /\ UNCHANGED <<dataVars, rankVars, cacheVars>>

SearchNext == participants

SearchSpec == SearchInit /\ [][SearchNext]_vars

(***************************************************************************)
(* C22                                                                     *)
(***************************************************************************)
\* q occurs in string, letters compared in either case
ContainsIgnoringCase(string, q) ==
    \E i \in 0..(Len(string) - Len(q)) :
        \A k \in 1..Len(q) : UpperCase(string[i + k]) = UpperCase(q[k])

SearchedTexts(p) ==
    {<<p.organization_name>>, <<p.zipcode>>, <<p.city>>,
     <<UserOf(p).first_name, 32, UserOf(p).last_name>>}
        \cup (IF \E r \in Regions : r.id = p.region_id
              THEN {<<(CHOOSE r \in Regions : r.id = p.region_id).region_code>>}
              ELSE {})

\* C22: a search returns at most 5 participants, each in the contest's
\* eligibility set and with the query as a substring, in either case, of
\* its organization name, first and last name, postal code, city or region
\* code; and the search changes neither the data, the queue, the worker nor
\* the cache.
C22_SearchResults ==
    /\ [](enginePc = "done" =>
            /\ Cardinality(board.found) <= 5
            /\ \A p \in board.found :
                  /\ p \in Participants
                  /\ MeetsConstraints(contest[1], p)
                  /\ ~ListedOwner(contest[1], p)
                  /\ \E text \in SearchedTexts(p) :
                        ContainsIgnoringCase(text, board.query))
    /\ [][board' # board => UNCHANGED <<dataVars, cacheVars>>]_vars

C22_Witness ==
    /\ enginePc = "done"
    /\ board.query = <<97>>
    /\ Cardinality(board.found) = 5
    /\ \E p \in Participants :
          /\ p \notin board.found
          /\ MeetsConstraints(contest[1], p)
          /\ ContainsIgnoringCase(<<p.city>>, board.query)
    /\ \E p \in board.found : ~ContainsIgnoringCase(<<p.organization_name>>, board.query)

(***************************************************************************)
(* BoardSpec: leaderboard_calc over drawn eligibility settings, brigades   *)
(* and votes                                                               *)
(***************************************************************************)
\* a verified vote for profile 2, cast on the first day
BoardVotes ==
    { [id |-> 1, contest_id |-> 1, profile_id |-> 2, contest_email |-> 1,
       created_at |-> DefaultContest(1).first_day] }

BoardInit ==
    /\ \E white \in BOOLEAN, ids \in {{}, {1}, {2, 3}},
          regs \in SUBSET RegionIds, brigades \in {{1}, {2}, {1, 2}} :
          contest = [i \in {1} |->
                        [DefaultContest(i) EXCEPT !.users_list_white = white,
                                                  !.users_list_ids = ids,
                                                  !.regions = regs,
                                                  !.brigade_ids = brigades]]
    /\ contest_votes \in SUBSET BoardVotes
    /\ verified = {v.contest_email : v \in BoardVotes}
    /\ shipments = {}
    /\ board = <<>>
    /\ enginePc = "input"
    /\ lb = <<>>
    /\ ranked = <<>>
    /\ rankPc = "off"
    /\ queue = <<>>
    /\ worker = <<>>
    /\ cache = <<>>
    /\ reader = <<>>

BoardNext == ComputeLeaderboard

BoardSpec == BoardInit /\ [][BoardNext]_vars

(***************************************************************************)
(* C23                                                                     *)
(***************************************************************************)
EligibleFor(c, p) ==
    /\ p \in Participants
    /\ IF c.users_list_white
       THEN c.users_list_ids = {} \/ CurrentProfileOfListed(c, p)
       ELSE MeetsConstraints(c, p) /\ ~CurrentProfileOfListed(c, p)

HasContestCollection(c, p) ==
    \E col \in Collections :
        /\ col.profile_id = p.id
        /\ col.active
        /\ col.brigade_id \in c.brigade_ids

\* C23: the leaderboard has one entry for each eligible profile that has an
\* active collection under one of the contest's brigades and no other
\* entry: a profile with several collections appears once, one without
\* activity appears with credits 0, and an ineligible one never appears.
C23_OneEntryPerContestant ==
    enginePc = "done" =>
        /\ IdsOf(board) =
              {p.id : p \in {x \in Profiles :
                                EligibleFor(contest[1], x)
                                    /\ HasContestCollection(contest[1], x)}}
        /\ \A i, j \in 1..Len(board) : board[i].id = board[j].id => i = j
        /\ \A i \in 1..Len(board) :
              (board[i].vote_count = 0 /\ board[i].shipment_count = 0) =>
                  board[i].credits = 0

C23_Witness ==
    /\ enginePc = "done"
    /\ ~contest[1].users_list_white
    /\ contest[1].regions = {1, 2}
    /\ contest[1].users_list_ids = {2, 3}
    /\ contest[1].brigade_ids = {1, 2}
    /\ contest_votes # {}
    /\ Len(board) = 2
    /\ \E i \in 1..Len(board) : board[i].id = 1 /\ board[i].credits = 0
    /\ \E i \in 1..Len(board) : board[i].id = 5 /\ board[i].credits = 0

(***************************************************************************)
(* LiveSpec: a contest that is only read.  Nothing is saved, voted or      *)
(* updated by hand, so the only jobs are those a read enqueues; the worker *)
(* keeps reserving jobs, and a job is not failing forever.                 *)
(***************************************************************************)
\* two verified votes of the contest
LiveVotes ==
    { [id |-> 1, contest_id |-> 1, profile_id |-> 1, contest_email |-> 1,
       created_at |-> DefaultContest(1).first_day],
      [id |-> 2, contest_id |-> 1, profile_id |-> 2, contest_email |-> 2,
       created_at |-> DefaultContest(1).last_day] }

LiveInit ==
    /\ \E flag \in BOOLEAN :
          contest = [i \in {1} |->
                        [DefaultContest(i) EXCEPT !.leaderboard_display_address = flag]]
    /\ contest_votes \in SUBSET LiveVotes
    /\ verified = {v.contest_email : v \in LiveVotes}
    /\ shipments = {}
    /\ queue = <<>>
    /\ worker = IdleWorker
    /\ cache = [i \in {1} |-> NoEntry]
    /\ reader = IdleReader
    /\ board = <<>>
    /\ enginePc = "off"
    /\ lb = <<>>
    /\ ranked = <<>>
    /\ rankPc = "off"

LiveNext ==
    \/ \E c \in DOMAIN contest : ReadMiss(c)
    \/ \E c \in DOMAIN contest : ReadExists(c)
    \/ ReadFetch
    \/ StartPerform
    \/ Publish
    \/ PerformFails

LiveSpec ==
    /\ LiveInit
    /\ [][LiveNext]_vars
    /\ WF_vars(StartPerform)
    /\ SF_vars(Publish)

(***************************************************************************)
(* C24                                                                     *)
(***************************************************************************)
MissReturned(c) ==
    /\ reader.pc = "done"
    /\ reader.contest = c
    /\ ~reader.hit
    /\ contest[c].leaderboard_display_address

====
